---- MODULE Spec2Model ----
(***************************************************************************)
(* The session cache-and-persistence engine of AxumSession: the request    *)
(* cycle of SessionService::call over the shared in-memory map, the        *)
(* membership filter, the sweep timers and the storage backend.            *)
(*                                                                         *)
(* Each request cycle is a process; every access to the shared map, the    *)
(* filter, the timers or the storage backend is one step, so that the      *)
(* requests of the multi-threaded runtime interleave between any two of    *)
(* them.  Time is an integer clock advanced by Tick.                       *)
(***************************************************************************)
EXTENDS Integers, FiniteSets, Sequences, TLC

\* ------------------------------------------------------------- bounds
NumIds == 2
NumRequests == 2
MaxTime == 2
MaxCycles == 2
MaxData == 1
MaxFailures == 1
NumSlots == 3
NumKeys == 4
MaxCount == 3

SessionIDs == 1..NumIds
Requests == 1..NumRequests
NoId == 0

VARIABLES
    config,        \* SessionConfig and the backend's traits, fixed at construction
    now,           \* Utc::now()
    inner,         \* SessionStore.inner: id -> record or NoRecord
    db,            \* the storage backend: id -> persisted row or NoRow
    filter,        \* SessionStore.filter
    timers,        \* SessionStore.timers
    pc,            \* position of each request cycle in SessionService::call
    sid,           \* session.id of the request
    is_new,        \* is_new of Session::new
    storable,      \* storable of get_headers_and_key
    fresh,         \* fresh_session between load_session and insert
    snap,          \* (renew, storable, destroy, loaded) read after the handler
    new_id,        \* session_id generated for the rotation
    moved,         \* session_data between inner.remove and inner.insert
    flushed,       \* what the flush of this cycle did
    outcome,       \* how the cycle ended: "ok", or the return that surfaced an error
    dcall,         \* session.destroy() of this cycle's handler set the flag of a record
    cycles,        \* request cycles started so far
    failures,      \* storage errors injected so far
    registered,    \* ids handed to the filter's add and not since to its remove
    redis,         \* the key space of the Redis server: key -> value or NoRow
    reply,         \* what the last call of the backend or of the payload API returned
    seen           \* (last_sweep, last_database_sweep, current_time) as the request read them

vars == <<config, now, inner, db, filter, timers, pc, sid, is_new, storable,
          fresh, snap, new_id, moved, flushed, outcome, dcall,
          cycles, failures, registered, redis, reply, seen>>

shared == <<inner, db, filter, timers>>
locals == <<sid, is_new, storable, fresh, snap, new_id, moved,
            flushed, outcome, dcall>>

NoRecord == [absent |-> TRUE]
NoRow == [absent |-> TRUE]
NoReply == [op |-> "none", table_name |-> <<>>, id |-> <<>>, result |-> "none"]
\* no watermark read yet
NoSeen == [last_expiry_sweep |-> 0, last_database_expiry_sweep |-> 0, current_time |-> 0]
NoSnap == [renew |-> FALSE, storable |-> FALSE, destroy |-> FALSE, loaded |-> FALSE]

\* The cycle of request r ends with `result`: the response is returned and the
\* task's variables are dropped (the session id and the result stay readable)
EndCycle(r, result) ==
    /\ pc' = [pc EXCEPT ![r] = "idle"]
    /\ outcome' = [outcome EXCEPT ![r] = result]
    /\ is_new' = [is_new EXCEPT ![r] = FALSE]
    /\ storable' = [storable EXCEPT ![r] = FALSE]
    /\ fresh' = [fresh EXCEPT ![r] = NoRecord]
    /\ snap' = [snap EXCEPT ![r] = NoSnap]
    /\ new_id' = [new_id EXCEPT ![r] = NoId]
    /\ moved' = [moved EXCEPT ![r] = NoRecord]
    /\ flushed' = [flushed EXCEPT ![r] = "none"]
    /\ dcall' = [dcall EXCEPT ![r] = FALSE]

\* The cycle of request r goes on at `label`
Goto(r, label) ==
    /\ pc' = [pc EXCEPT ![r] = label]
    /\ UNCHANGED <<outcome, is_new, storable, fresh, snap, new_id, moved, flushed, dcall>>

\* ------------------------------------------------------ configuration
\* SessionMode
is_manual == config.mode = "Manual"
is_opt_in == config.mode = "OptIn"

\* SessionStore::is_persistent: a storage client is attached
is_persistent == config.persistent

\* SessionStore::auto_handles_expiry: the attached client's answer
auto_handles_expiry == config.persistent /\ config.auto_expiry

\* ------------------------------------------------------- SessionData
\* The record the configuration hands out for a new session
\* (config.session_ops.clone_box()): empty payload, no flag set, held by the
\* creating request, timestamps of the moment the store was built.
session_ops ==
    [id |-> NoId, data |-> 0, expires_at |-> 0, autoremove_at |-> 0,
     destroy |-> FALSE, renew |-> FALSE, longterm |-> FALSE, store |-> FALSE,
     update |-> FALSE, requests |-> 1]

set_id(rec, new) == [rec EXCEPT !.id = new, !.update = TRUE]

is_expired(rec) == rec.expires_at < now

service_clear(rec, memory_lifespan, clear_check) ==
    LET hit == clear_check /\ rec.autoremove_at < now
    IN  [rec EXCEPT !.update = IF hit THEN TRUE ELSE @,
                    !.data = IF hit /\ is_expired(rec) THEN 0 ELSE @,
                    !.autoremove_at = now + memory_lifespan]

renew(rec) == [rec EXCEPT !.renew = TRUE, !.update = TRUE]

prevent_renew(rec) == [rec EXCEPT !.renew = FALSE, !.update = TRUE]

prevent_update(rec) == [rec EXCEPT !.update = FALSE]

destroy(rec) == [rec EXCEPT !.destroy = TRUE]

set_expiration(rec, t) == [rec EXCEPT !.expires_at = t, !.update = TRUE]

set_autoremove(rec, t) == [rec EXCEPT !.autoremove_at = t, !.update = TRUE]

will_autoremove(rec, time) == rec.autoremove_at < time

set_longterm(rec, longterm) == [rec EXCEPT !.longterm = longterm, !.update = TRUE]

set_storable(rec, can_store) == [rec EXCEPT !.store = can_store, !.update = TRUE]

set(rec, value) == [rec EXCEPT !.data = value, !.update = TRUE]

add_request(rec) == [rec EXCEPT !.requests = @ + 1]

remove_request(rec) == [rec EXCEPT !.requests = IF @ = 0 THEN 0 ELSE @ - 1]

reset_requests(rec) == [rec EXCEPT !.requests = 1]

\* is_parallel read as "held by more than one request"
is_parallel_more_than_one(rec) == rec.requests >= 2

is_parallel(rec) == rec.requests >= 1

\* serde_json::to_value: only data and longterm are written, the other fields
\* are #[serde(skip)]
to_value(rec) == [data |-> rec.data, longterm |-> rec.longterm]

\* Value::to_string: the text of a JSON value, member after member
json_text(v) == <<v.data, IF v.longterm THEN 1 ELSE 0>>

to_string(rec) == json_text(to_value(rec))

\* StoredAs::String(s) and StoredAs::JsonValue(j)
StoredAsString(s) == [kind |-> "String", s |-> s]
StoredAsJsonValue(j) == [kind |-> "JsonValue", j |-> j]

\* serde_json::from_str::<SessionData> and serde_json::from_value::<SessionData>
from_str(s) == [data |-> s[1], longterm |-> (s[2] = 1)]
from_value(j) == [data |-> j.data, longterm |-> j.longterm]

\* from_storage with longterm left at its default, as a skipped field is
from_storage_longterm_skipped(stored) ==
    LET d == IF stored.kind = "String" THEN from_str(stored.s) ELSE from_value(stored.j)
    IN  [id |-> NoId, data |-> d.data, expires_at |-> 0, autoremove_at |-> 0,
         destroy |-> FALSE, renew |-> FALSE, longterm |-> FALSE,
         store |-> FALSE, update |-> FALSE, requests |-> 0]

\* the skipped fields come back as the defaults of their types
from_storage(stored) ==
    LET d == IF stored.kind = "String" THEN from_str(stored.s) ELSE from_value(stored.j)
    IN  [id |-> NoId, data |-> d.data, expires_at |-> 0, autoremove_at |-> 0,
         destroy |-> FALSE, renew |-> FALSE, longterm |-> d.longterm,
         store |-> FALSE, update |-> FALSE, requests |-> 0]

\* ------------------------------------------------------------ filter
\* the counters of the filter and the counters an id hashes to (two hashes)
Slots == 0..(NumSlots - 1)
slots_of(id) == {id % NumSlots, (id + 1) % NumSlots}
EmptyFilter == [s \in Slots |-> 0]

\* CountingBloomFilter: contains, add, remove (remove acts on a contained id)
filter_contains(f, id) == \A s \in slots_of(id) : f[s] > 0
filter_add(f, id) == [s \in Slots |-> IF s \in slots_of(id) THEN f[s] + 1 ELSE f[s]]
filter_remove(f, id) ==
    IF filter_contains(f, id)
    THEN [s \in Slots |-> IF s \in slots_of(id) THEN f[s] - 1 ELSE f[s]]
    ELSE f

\* filter.remove for each id of a collection
RECURSIVE filter_remove_each(_, _)
filter_remove_each(f, ids) ==
    IF ids = {} THEN f
    ELSE LET id == CHOOSE i \in ids : \A j \in ids : i <= j
         IN filter_remove_each(filter_remove(f, id), ids \ {id})

\* ----------------------------------------------------------- storage
\* DatabasePool::store: SET key(session.id()) session.to_string(), EXPIREAT
db_store(d, rec) ==
    [d EXCEPT ![rec.id] = [stored |-> StoredAsString(to_string(rec)),
                           expires |-> rec.expires_at]]

\* the store of a backend that keeps the JSON value and loads it as
\* StoredAs::JsonValue
db_store_value(d, rec) ==
    [d EXCEPT ![rec.id] = [stored |-> StoredAsJsonValue(to_value(rec)),
                           expires |-> rec.expires_at]]

db_exists(d, id) == d[id] # NoRow

db_delete(d, id) == [d EXCEPT ![id] = NoRow]

\* ------------------------------------------------ SessionStore helpers
contains_key(id) == inner[id] # NoRecord

\* SessionStore::load_session: load, decode, and key the record by the id asked for
load_session(id) ==
    IF is_persistent /\ db[id] # NoRow
    THEN [from_storage(db[id].stored) EXCEPT !.id = id]
    ELSE NoRecord

\* SessionStore::is_session_parallel
is_session_parallel(m, id) == m[id] # NoRecord /\ is_parallel(m[id])

\* SessionStore::remove_session_request
remove_session_request(m, id) ==
    IF m[id] # NoRecord THEN [m EXCEPT ![id] = remove_request(@)] ELSE m

\* ----------------------------------------------------- Session::new
\* One pass of the loop of generate_uuid accepts the candidate token
accepts(token) ==
    IF (~config.use_bloom_filters \/ auto_handles_expiry) /\ ~contains_key(token)
    THEN IF is_persistent THEN ~db_exists(db, token) ELSE TRUE
    ELSE ~filter_contains(filter, token)

\* the storable values a request can carry: the flag is read only under the
\* OptIn and Manual modes
StorableValues == IF config.mode = "Always" THEN {FALSE} ELSE BOOLEAN

\* generate_uuid reaches client.exists for the candidate token
asks_exists(token) ==
    /\ (~config.use_bloom_filters \/ auto_handles_expiry)
    /\ ~contains_key(token)
    /\ is_persistent

\* Session::new: take the presented id or generate one, register it in the filter;
\* an error of client.exists is unwrapped in generate_uuid, and the panic ends
\* the task of the request before any response is built
NewSession(r) ==
    /\ pc[r] = "idle"
    /\ \A q \in Requests : q < r => pc[q] # "idle"
    /\ cycles < MaxCycles
    /\ cycles' = cycles + 1
    /\ \/ /\ \E value \in SessionIDs \cup {NoId}, id \in SessionIDs, st \in StorableValues :
               /\ IF value = NoId THEN accepts(id) ELSE id = value
               /\ sid' = [sid EXCEPT ![r] = id]
               /\ is_new' = [is_new EXCEPT ![r] = (value = NoId)]
               /\ storable' = [storable EXCEPT ![r] = st]
               /\ filter' = IF config.use_bloom_filters /\ ~filter_contains(filter, id)
                            THEN filter_add(filter, id) ELSE filter
          /\ pc' = [pc EXCEPT ![r] = "attach"]
          /\ outcome' = [outcome EXCEPT ![r] = "none"]
          /\ UNCHANGED failures
       \/ /\ failures < MaxFailures
          /\ \E token \in SessionIDs : asks_exists(token)
          /\ failures' = failures + 1
          /\ outcome' = [outcome EXCEPT ![r] = "panic"]
          /\ UNCHANGED <<pc, sid, is_new, storable, filter>>
    /\ UNCHANGED <<config, redis, reply, seen, registered, now, inner, db, timers, fresh, snap, new_id, moved,
                   flushed, dcall>>

\* SessionStore::service_session_data: touch and hold a record that is in memory
service_session_data(m, id) ==
    [m EXCEPT ![id] = add_request(service_clear(@, config.memory_lifespan,
                                                config.clear_check_on_load))]

\* call: insert a new record, or attach to the one in memory, or go to storage
Attach(r) ==
    /\ pc[r] = "attach"
    /\ IF is_new[r] /\ ~is_manual
       THEN /\ inner' = [inner EXCEPT ![sid[r]] =
                            set_storable(set_id(session_ops, sid[r]), storable[r])]
            /\ pc' = [pc EXCEPT ![r] = "sweeps"]
       ELSE IF ~is_new[r] \/ ~is_manual
       THEN IF contains_key(sid[r])
            THEN /\ inner' = service_session_data(inner, sid[r])
                 /\ pc' = [pc EXCEPT ![r] = "sweeps"]
            ELSE /\ inner' = inner
                 /\ pc' = [pc EXCEPT ![r] = "load"]
       ELSE /\ inner' = inner
            /\ pc' = [pc EXCEPT ![r] = "sweeps"]
    /\ UNCHANGED <<config, redis, reply, seen, registered, now, db, filter, timers, locals, cycles, failures>>

\* call: the record unwrap_or_else builds when load_session gave none
recreate(r) == set_storable(set_id(session_ops, sid[r]), storable[r])

\* call: load_session(...).ok().flatten().unwrap_or_else(recreate); an Err of
\* load_session (the backend's load or the decoding failed) is turned into
\* None by ok()
LoadSession(r) ==
    /\ pc[r] = "load"
    /\ \/ /\ fresh' = [fresh EXCEPT ![r] =
                          IF load_session(sid[r]) # NoRecord
                          THEN load_session(sid[r])
                          ELSE recreate(r)]
          /\ UNCHANGED failures
       \/ /\ is_persistent
          /\ failures < MaxFailures
          /\ failures' = failures + 1
          /\ fresh' = [fresh EXCEPT ![r] = recreate(r)]
    /\ pc' = [pc EXCEPT ![r] = "insert"]
    /\ UNCHANGED <<config, redis, reply, seen, registered, now, shared, sid, is_new, storable, snap,
                   new_id, moved, flushed, outcome, dcall, cycles>>

\* InsertFresh without the set_storable of the request's value
InsertFreshKeepsStorable(r) ==
    /\ pc[r] = "insert"
    /\ inner' = [inner EXCEPT ![sid[r]] =
                    reset_requests(
                        set_autoremove(fresh[r], now + config.memory_lifespan))]
    /\ fresh' = [fresh EXCEPT ![r] = NoRecord]
    /\ pc' = [pc EXCEPT ![r] = "sweeps"]
    /\ UNCHANGED <<config, redis, reply, seen, registered, now, db, filter, timers, sid, is_new, storable, snap, new_id, moved, flushed, outcome, dcall, cycles,
                   failures>>

\* call: set_autoremove, set_storable, reset_requests, insert
InsertFresh(r) ==
    /\ pc[r] = "insert"
    /\ inner' = [inner EXCEPT ![sid[r]] =
                    reset_requests(set_storable(
                        set_autoremove(fresh[r], now + config.memory_lifespan),
                        storable[r]))]
    /\ fresh' = [fresh EXCEPT ![r] = NoRecord]
    /\ pc' = [pc EXCEPT ![r] = "sweeps"]
    /\ UNCHANGED <<config, redis, reply, seen, registered, now, db, filter, timers, sid, is_new, storable, snap, new_id, moved, flushed, outcome, dcall, cycles,
                   failures>>

\* ------------------------------------------------------------- sweeps
\* the closure of inner.retain in the memory sweep
retained(rec, time) == ~will_autoremove(rec, time)

\* the memory sweep is due
memory_sweep_due(last_sweep, current_time) ==
    last_sweep <= current_time /\ config.memory_lifespan # 0

\* the database sweep is due
database_sweep_due(last_database_sweep, current_time) ==
    last_database_sweep <= current_time /\ is_persistent

\* the filter after the memory sweep took out the ids it is about to unload
sweep_filter(f, current_time) ==
    IF is_persistent /\ auto_handles_expiry /\ config.use_bloom_filters
    THEN filter_remove_each(f, {i \in SessionIDs : inner[i] # NoRecord
                                                 /\ will_autoremove(inner[i], current_time)})
    ELSE f

\* the map after inner.retain
sweep_memory(m, current_time) ==
    [i \in SessionIDs |-> IF m[i] # NoRecord /\ retained(m[i], current_time)
                          THEN m[i] ELSE NoRecord]

\* the rows delete_expired removes and returns; a backend that expires rows
\* natively returns none
expired_rows == IF config.auto_expiry THEN {}
                ELSE {i \in SessionIDs : db[i] # NoRow /\ db[i].expires < now}

\* Sweeps with the storage watermark moved on also when delete_expired fails
SweepsReschedulesOnError(r) ==
    /\ pc[r] = "sweeps"
    /\ LET mdue == memory_sweep_due(timers.last_expiry_sweep, now)
           ddue == database_sweep_due(timers.last_database_expiry_sweep, now)
           f1 == IF mdue THEN sweep_filter(filter, now) ELSE filter
           t1 == IF mdue THEN [timers EXCEPT !.last_expiry_sweep = now + config.purge_update]
                 ELSE timers
       IN /\ inner' = IF mdue THEN sweep_memory(inner, now) ELSE inner
          /\ IF ddue
             THEN \/ /\ db' = [i \in SessionIDs |->
                                  IF i \in expired_rows THEN NoRow ELSE db[i]]
                     /\ filter' = IF ~auto_handles_expiry
                                  THEN filter_remove_each(f1, expired_rows) ELSE f1
                     /\ timers' = [t1 EXCEPT !.last_database_expiry_sweep =
                                                 now + config.purge_database_update]
                     /\ Goto(r, "handler")
                     /\ UNCHANGED failures
                  \/ /\ failures < MaxFailures
                     /\ failures' = failures + 1
                     /\ EndCycle(r, "sweep_error")
                     /\ filter' = f1
                     /\ timers' = [t1 EXCEPT !.last_database_expiry_sweep =
                                                 now + config.purge_database_update]
                     /\ UNCHANGED db
             ELSE /\ Goto(r, "handler")
                  /\ filter' = f1
                  /\ timers' = t1
                  /\ UNCHANGED <<db, failures>>
    /\ UNCHANGED <<config, redis, reply, seen, registered, now, sid, cycles>>

\* call: read the watermarks, then the memory sweep and the database sweep,
\* each when due; an error of delete_expired ends the cycle
Sweeps(r) ==
    /\ pc[r] = "sweeps"
    /\ LET mdue == memory_sweep_due(timers.last_expiry_sweep, now)
           ddue == database_sweep_due(timers.last_database_expiry_sweep, now)
           f1 == IF mdue THEN sweep_filter(filter, now) ELSE filter
           t1 == IF mdue THEN [timers EXCEPT !.last_expiry_sweep = now + config.purge_update]
                 ELSE timers
       IN /\ inner' = IF mdue THEN sweep_memory(inner, now) ELSE inner
          /\ IF ddue
             THEN \/ /\ db' = [i \in SessionIDs |->
                                  IF i \in expired_rows THEN NoRow ELSE db[i]]
                     /\ filter' = IF ~auto_handles_expiry
                                  THEN filter_remove_each(f1, expired_rows) ELSE f1
                     /\ timers' = [t1 EXCEPT !.last_database_expiry_sweep =
                                                 now + config.purge_database_update]
                     /\ Goto(r, "handler")
                     /\ UNCHANGED failures
                  \/ /\ failures < MaxFailures
                     /\ failures' = failures + 1
                     /\ EndCycle(r, "sweep_error")
                     /\ filter' = f1
                     /\ timers' = t1
                     /\ UNCHANGED db
             ELSE /\ Goto(r, "handler")
                  /\ filter' = f1
                  /\ timers' = t1
                  /\ UNCHANGED <<db, failures>>
    /\ UNCHANGED <<config, redis, reply, seen, registered, now, sid, cycles>>

\* a backend with native expiry drops a row once its expiry has passed
DbExpire ==
    /\ auto_handles_expiry
    /\ \E i \in SessionIDs :
         /\ db[i] # NoRow /\ db[i].expires < now
         /\ db' = db_delete(db, i)
    /\ UNCHANGED <<config, redis, reply, seen, registered, now, inner, filter, timers, pc, locals, cycles, failures>>

\* ------------------------------------------------------------ handler
\* SessionStore::set, destroy, renew: each acts on the record when it is in memory
store_set(m, id, v) == IF m[id] # NoRecord THEN [m EXCEPT ![id] = set(@, v)] ELSE m
store_destroy(m, id) == IF m[id] # NoRecord THEN [m EXCEPT ![id] = destroy(@)] ELSE m
store_renew(m, id) == IF m[id] # NoRecord THEN [m EXCEPT ![id] = renew(@)] ELSE m

\* ready_inner.call(req): the handler sets a value, or not, asks for a new id,
\* or not, and destroys the session, or not
HandlerOps(r, Renews) ==
    /\ pc[r] = "handler"
    /\ \E v \in 0..MaxData, rn \in Renews, ds \in BOOLEAN :
         LET m1 == IF v # 0 THEN store_set(inner, sid[r], v) ELSE inner
             m2 == IF rn THEN store_renew(m1, sid[r]) ELSE m1
             m3 == IF ds THEN store_destroy(m2, sid[r]) ELSE m2
         IN /\ inner' = m3
            /\ dcall' = [dcall EXCEPT ![r] = ds /\ contains_key(sid[r])]
    /\ pc' = [pc EXCEPT ![r] = "snapshot"]
    /\ UNCHANGED <<config, redis, reply, seen, registered, now, db, filter, timers, sid, is_new, storable, fresh,
                   snap, new_id, moved, flushed, outcome, cycles, failures>>

\* a handler that may call session.renew()
Handler(r) == HandlerOps(r, BOOLEAN)

\* a handler that never calls session.renew()
HandlerNoRenew(r) == HandlerOps(r, {FALSE})

\* One pass of the loop of Session::generate_id accepts the candidate token
generate_id_accepts(token) == accepts(token)

\* call: read (renew, storable, destroy, loaded) and,
\* when the session is to be renewed, generate the new id
Snapshot(r) ==
    /\ pc[r] = "snapshot"
    /\ LET s == IF contains_key(sid[r])
                THEN [renew |-> inner[sid[r]].renew, storable |-> inner[sid[r]].store,
                      destroy |-> inner[sid[r]].destroy, loaded |-> TRUE]
                ELSE NoSnap
       IN /\ snap' = [snap EXCEPT ![r] = s]
          /\ IF ~s.destroy /\ (~is_manual \/ s.loaded) /\ s.renew
             THEN /\ \E token \in SessionIDs :
                       /\ generate_id_accepts(token)
                       /\ new_id' = [new_id EXCEPT ![r] = token]
                  /\ pc' = [pc EXCEPT ![r] = "rotdel"]
             ELSE /\ pc' = [pc EXCEPT ![r] = "flush"]
                  /\ UNCHANGED new_id
    /\ UNCHANGED <<config, redis, reply, seen, registered, now, shared, sid, is_new, storable, fresh, moved, flushed, outcome, dcall, cycles, failures>>

\* ----------------------------------------------------------- rotation
\* RotateDbRemove with the filter updated before the storage delete is tried
RotateDbRemoveFilterFirst(r) ==
    /\ pc[r] = "rotdel"
    /\ filter' = IF config.use_bloom_filters THEN filter_remove(filter, sid[r]) ELSE filter
    /\ IF is_persistent
       THEN \/ /\ db' = db_delete(db, sid[r])
               /\ Goto(r, "rotremove")
               /\ UNCHANGED failures
            \/ /\ failures < MaxFailures
               /\ failures' = failures + 1
               /\ EndCycle(r, "rotate_error")
               /\ UNCHANGED db
       ELSE /\ Goto(r, "rotremove")
            /\ UNCHANGED <<db, failures>>
    /\ UNCHANGED <<config, redis, reply, seen, registered, now, inner, timers, sid, cycles>>

\* call: database_remove_session(old id); an error ends the cycle
RotateDbRemove(r) ==
    /\ pc[r] = "rotdel"
    /\ IF is_persistent
       THEN \/ /\ db' = db_delete(db, sid[r])
               /\ Goto(r, "rotremove")
               /\ UNCHANGED failures
            \/ /\ failures < MaxFailures
               /\ failures' = failures + 1
               /\ EndCycle(r, "rotate_error")
               /\ UNCHANGED db
       ELSE /\ Goto(r, "rotremove")
            /\ UNCHANGED <<db, failures>>
    /\ UNCHANGED <<config, redis, reply, seen, registered, now, inner, filter, timers, sid, cycles>>

\* call: filter.remove(old id), then inner.remove(old id)
RotateRemove(r) ==
    /\ pc[r] = "rotremove"
    /\ filter' = IF config.use_bloom_filters THEN filter_remove(filter, sid[r]) ELSE filter
    /\ IF contains_key(sid[r])
       THEN /\ moved' = [moved EXCEPT ![r] = inner[sid[r]]]
            /\ inner' = [inner EXCEPT ![sid[r]] = NoRecord]
            /\ pc' = [pc EXCEPT ![r] = "rotinsert"]
       ELSE /\ pc' = [pc EXCEPT ![r] = "flush"]
            /\ UNCHANGED <<moved, inner>>
    /\ UNCHANGED <<config, redis, reply, seen, registered, now, db, timers, sid, is_new, storable, fresh, snap, new_id, flushed, outcome, dcall, cycles, failures>>

\* call: set_id(new id), prevent_renew, session.id = new id, inner.insert
RotateInsert(r) ==
    /\ pc[r] = "rotinsert"
    /\ inner' = [inner EXCEPT ![new_id[r]] = prevent_renew(set_id(moved[r], new_id[r]))]
    /\ sid' = [sid EXCEPT ![r] = new_id[r]]
    /\ moved' = [moved EXCEPT ![r] = NoRecord]
    /\ pc' = [pc EXCEPT ![r] = "flush"]
    /\ UNCHANGED <<config, redis, reply, seen, registered, now, db, filter, timers, is_new, storable, fresh, snap, new_id, flushed, outcome, dcall, cycles, failures>>

\* -------------------------------------------------------------- flush
\* the flush is allowed by the flags read after the handler
flush_allowed(s) == (~is_opt_in \/ s.storable) /\ is_persistent /\ ~s.destroy

\* the record needs writing
needs_write(rec) == config.always_save \/ rec.update \/ ~is_expired(rec)

\* a flush that gives every record the short lifespan
flush_record_lifespan_only(rec) ==
    prevent_update(set_expiration(rec, now + config.lifespan))

\* the record as the flush hands it to store_session
flush_record(rec) ==
    prevent_update(set_expiration(rec, now + (IF rec.longterm THEN config.max_lifespan
                                                              ELSE config.lifespan)))

\* Flush with the update flag set again when store_session fails
FlushRestoresUpdate(r) ==
    /\ pc[r] = "flush"
    /\ IF flush_allowed(snap[r]) /\ contains_key(sid[r]) /\ needs_write(inner[sid[r]])
       THEN /\ \/ /\ inner' = [inner EXCEPT ![sid[r]] = flush_record(@)]
                  /\ db' = db_store(db, flush_record(inner[sid[r]]))
                  /\ flushed' = [flushed EXCEPT ![r] = "stored"]
                  /\ pc' = [pc EXCEPT ![r] = "remreq"]
                  /\ UNCHANGED <<outcome, is_new, storable, fresh, snap, new_id,
                                 moved, dcall, failures>>
               \/ /\ failures < MaxFailures
                  /\ failures' = failures + 1
                  /\ inner' = [inner EXCEPT ![sid[r]] =
                                  [flush_record(@) EXCEPT !.update = TRUE]]
                  /\ EndCycle(r, "store_error")
                  /\ UNCHANGED db
       ELSE /\ flushed' = [flushed EXCEPT ![r] = "skipped"]
            /\ pc' = [pc EXCEPT ![r] = "remreq"]
            /\ UNCHANGED <<inner, db, outcome, is_new, storable, fresh, snap,
                           new_id, moved, dcall, failures>>
    /\ UNCHANGED <<config, redis, reply, seen, registered, now, filter, timers, sid, cycles>>

\* call: get_mut, set_expiration, prevent_update, store_session
Flush(r) ==
    /\ pc[r] = "flush"
    /\ IF flush_allowed(snap[r]) /\ contains_key(sid[r]) /\ needs_write(inner[sid[r]])
       THEN /\ inner' = [inner EXCEPT ![sid[r]] = flush_record(@)]
            /\ \/ /\ db' = db_store(db, flush_record(inner[sid[r]]))
                  /\ flushed' = [flushed EXCEPT ![r] = "stored"]
                  /\ pc' = [pc EXCEPT ![r] = "remreq"]
                  /\ UNCHANGED <<outcome, is_new, storable, fresh, snap, new_id,
                                 moved, dcall, failures>>
               \/ /\ failures < MaxFailures
                  /\ failures' = failures + 1
                  /\ EndCycle(r, "store_error")
                  /\ UNCHANGED db
       ELSE /\ flushed' = [flushed EXCEPT ![r] = "skipped"]
            /\ pc' = [pc EXCEPT ![r] = "remreq"]
            /\ UNCHANGED <<inner, db, outcome, is_new, storable, fresh, snap,
                           new_id, moved, dcall, failures>>
    /\ UNCHANGED <<config, redis, reply, seen, registered, now, filter, timers, sid, cycles>>

\* ------------------------------------------------------- end of cycle
\* call: session.remove_request()
RemoveRequest(r) ==
    /\ pc[r] = "remreq"
    /\ inner' = remove_session_request(inner, sid[r])
    /\ pc' = [pc EXCEPT ![r] = "evict"]
    /\ UNCHANGED <<config, redis, reply, seen, registered, now, db, filter, timers, locals, cycles, failures>>

\* the record is to be unloaded by the flags read after the handler
evict_wanted(s) == (is_opt_in /\ ~s.storable) \/ s.destroy

\* the filter and the map after the unloading of a destroyed or not storable session
evict_filter(f, id) == IF config.use_bloom_filters THEN filter_remove(f, id) ELSE f

\* the filter after the unloading that a zero memory lifespan asks for
zero_filter(f, id) ==
    IF ~is_persistent /\ config.use_bloom_filters THEN filter_remove(f, id) ELSE f

\* call: unload a destroyed or not storable session nobody else holds, deleting
\* its row (an error ends the cycle); then, with a zero memory lifespan, unload
\* the record nobody else holds
Evict(r) ==
    /\ pc[r] = "evict"
    /\ LET ev == evict_wanted(snap[r]) /\ ~is_session_parallel(inner, sid[r])
           m1 == IF ev THEN [inner EXCEPT ![sid[r]] = NoRecord] ELSE inner
           f1 == IF ev THEN evict_filter(filter, sid[r]) ELSE filter
           zero == config.memory_lifespan = 0 /\ ~is_session_parallel(m1, sid[r])
       IN \/ /\ db' = IF ev /\ is_persistent THEN db_delete(db, sid[r]) ELSE db
             /\ inner' = IF zero THEN [m1 EXCEPT ![sid[r]] = NoRecord] ELSE m1
             /\ filter' = IF zero THEN zero_filter(f1, sid[r]) ELSE f1
             /\ EndCycle(r, "ok")
             /\ UNCHANGED failures
          \/ /\ ev /\ is_persistent
             /\ failures < MaxFailures
             /\ failures' = failures + 1
             /\ inner' = m1
             /\ filter' = f1
             /\ EndCycle(r, "evict_error")
             /\ UNCHANGED db
    /\ UNCHANGED <<config, redis, reply, seen, registered, now, timers, sid, cycles>>

\* the clock
Tick ==
    /\ now < MaxTime
    /\ now' = now + 1
    /\ UNCHANGED <<config, redis, reply, seen, registered, shared, pc, locals, cycles, failures>>

\* ------------------------------------------------- the Redis backend
\* Table names and session ids as the backend is handed them: texts, written
\* as the sequence of their segments between ':' (the empty table name has none)
Namespaces == {<<>>, <<"a">>, <<"b">>, <<"a", "b">>}
BackendIds == {<<"u1">>, <<"u2">>}

\* key(id, prefix): the raw id, or "prefix:id"
key(id, prefix) == IF prefix = <<>> THEN id ELSE prefix \o id

RedisKeys == {key(id, N) : id \in BackendIds, N \in Namespaces}
EmptyRedis == [k \in RedisKeys |-> NoRow]

\* the sessions handed to store: an id, a payload, an expiry ahead of the clock
BackendSessions ==
    [id : BackendIds, data : 0..MaxData, longterm : {FALSE}, expires_at : {1}]

\* a glob pattern matches a key; "*" stands for any text, ':' included, so for
\* one segment or more
RECURSIVE glob(_, _)
glob(pattern, k) ==
    IF pattern = <<>> THEN k = <<>>
    ELSE IF Head(pattern) = "*"
    THEN \E n \in 1..Len(k) : glob(Tail(pattern), SubSeq(k, n + 1, Len(k)))
    ELSE /\ k # <<>>
         /\ Head(k) = Head(pattern)
         /\ glob(Tail(pattern), Tail(k))

\* redis_tools::scan_keys: the keys of the server that match the pattern
scan_keys(ks, pattern) == {k \in RedisKeys : ks[k] # NoRow /\ glob(pattern, k)}

Ok(v) == [ok |-> v]
Err(e) == [err |-> e]

\* SessionRedisPool::initiate and SessionNullPool::initiate: nothing to create
redis_initiate(ks, table_name) == [ks |-> ks, result |-> Ok("unit")]
null_initiate(ks, table_name) == [ks |-> ks, result |-> Ok("unit")]

\* SessionRedisPool::store: SET key session.to_string(), EXPIREAT key
redis_store(ks, session, table_name) ==
    [ks |-> [ks EXCEPT ![key(session.id, table_name)] =
                 [stored |-> StoredAsString(to_string(session)),
                  expires |-> session.expires_at]],
     result |-> Ok("unit")]

\* SessionRedisPool::load: GET key, read as a String (a nil reply is not one)
redis_load(ks, id, table_name) ==
    [ks |-> ks,
     result |-> IF ks[key(id, table_name)] # NoRow
                THEN Ok(ks[key(id, table_name)].stored)
                ELSE Err("GenericSelectError")]

\* SessionRedisPool::delete_one_by_id: DEL key
redis_delete_one_by_id(ks, id, table_name) ==
    [ks |-> [ks EXCEPT ![key(id, table_name)] = NoRow], result |-> Ok("unit")]

\* SessionRedisPool::exists: EXISTS key
redis_exists(ks, id, table_name) ==
    [ks |-> ks, result |-> Ok(ks[key(id, table_name)] # NoRow)]

\* SessionRedisPool::delete_all: FLUSHDB, or DEL of every key that matches
\* "table_name:*"
redis_delete_all(ks, table_name) ==
    [ks |-> IF table_name = <<>>
            THEN EmptyRedis
            ELSE [k \in RedisKeys |->
                     IF k \in scan_keys(ks, table_name \o <<"*">>) THEN NoRow ELSE ks[k]],
     result |-> Ok("unit")]

\* SessionRedisPool::get_ids: the keys that match "*:*", or "table_name:0:*"
redis_get_ids(ks, table_name) ==
    [ks |-> ks,
     result |-> Ok(scan_keys(ks, (IF table_name = <<>> THEN <<"*">>
                                  ELSE table_name \o <<"0">>) \o <<"*">>))]

\* SessionRedisPool::count: DBSIZE, or the number of keys that match
\* "table_name:*"
redis_count(ks, table_name) ==
    [ks |-> ks,
     result |-> Ok(IF table_name = <<>>
                   THEN Cardinality({k \in RedisKeys : ks[k] # NoRow})
                   ELSE Cardinality(scan_keys(ks, table_name \o <<"*">>)))]

\* ------------------------------------------------------ specification
Configs ==
    [mode : {"Always", "OptIn", "Manual"}, persistent : {TRUE},
     memory_lifespan : {0, 1}, use_bloom_filters : BOOLEAN,
     auto_expiry : BOOLEAN, always_save : {FALSE}, clear_check_on_load : {TRUE},
     lifespan : {1}, max_lifespan : {2}, purge_update : {1},
     purge_database_update : {1}]

\* A session an earlier run of the server persisted: the backend outlives the
\* process, the map does not
PersistedRow ==
    [stored |-> StoredAsString(json_text([data |-> MaxData, longterm |-> FALSE])),
     expires |-> 1]

\* The store as SessionStore::new leaves it, over a backend that is empty or
\* holds one persisted session
InitState ==
    /\ now = 0
    /\ inner = [i \in SessionIDs |-> NoRecord]
    /\ db \in {[i \in SessionIDs |-> NoRow]}
              \cup (IF config.persistent
                    THEN {[i \in SessionIDs |-> IF i = 1 THEN PersistedRow ELSE NoRow]}
                    ELSE {})
    /\ filter = EmptyFilter
    /\ registered = {}
    /\ redis = EmptyRedis
    /\ reply = NoReply
    /\ seen = [r \in Requests |-> NoSeen]
    /\ timers = [last_expiry_sweep |-> config.purge_update,
                 last_database_expiry_sweep |-> config.purge_database_update]
    /\ pc = [r \in Requests |-> "idle"]
    /\ sid = [r \in Requests |-> NoId]
    /\ is_new = [r \in Requests |-> FALSE]
    /\ storable = [r \in Requests |-> FALSE]
    /\ fresh = [r \in Requests |-> NoRecord]
    /\ snap = [r \in Requests |-> NoSnap]
    /\ new_id = [r \in Requests |-> NoId]
    /\ moved = [r \in Requests |-> NoRecord]
    /\ flushed = [r \in Requests |-> "none"]
    /\ outcome = [r \in Requests |-> "none"]
    /\ dcall = [r \in Requests |-> FALSE]
    /\ cycles = 0
    /\ failures = 0

Init ==
    /\ config \in {c \in Configs : c.mode = "Always"}
    /\ InitState

\* the steps of a request cycle up to the handler, and after it
Before(r) ==
    \/ NewSession(r) \/ Attach(r) \/ LoadSession(r) \/ InsertFresh(r) \/ Sweeps(r)

After(r) ==
    \/ Snapshot(r) \/ Flush(r) \/ RemoveRequest(r) \/ Evict(r)

Rotation(r) ==
    \/ RotateDbRemove(r) \/ RotateRemove(r) \/ RotateInsert(r)

\* Request cycles whose handlers may renew the session id, within one unit of
\* the clock
Next ==
    \E r \in Requests : Before(r) \/ Handler(r) \/ After(r) \/ Rotation(r)

Spec == Init /\ [][Next]_vars

\* Request cycles whose handlers do not renew the session id, with the clock
\* running and the backend expiring rows
NextTimed ==
    \/ \E r \in Requests : Before(r) \/ HandlerNoRenew(r) \/ After(r)
    \/ Tick
    \/ DbExpire

InitTimed ==
    /\ config \in {c \in Configs : c.mode = "Always" /\ c.memory_lifespan = 1}
    /\ InitState

SpecTimed == InitTimed /\ [][NextTimed]_vars

\* ------------------------------------------- the filter on its own
\* The filter operations that request cycles issue, over a set of ids large
\* enough for ids to share counters.
FilterKeys == 1..NumKeys

\* Session::new: contains under the read lock, then add when not contained
Register(k) ==
    /\ \A s \in slots_of(k) : filter[s] < MaxCount
    /\ filter' = IF ~filter_contains(filter, k) THEN filter_add(filter, k) ELSE filter
    /\ registered' = registered \cup {k}
    /\ UNCHANGED <<config, redis, reply, seen, now, inner, db, timers, pc, locals, cycles, failures>>

\* one filter.remove of an id: the rotation, a sweep, or the unloading of a
\* destroyed session of a persistent store
Unregister(k) ==
    /\ k \in registered
    /\ filter' = filter_remove(filter, k)
    /\ registered' = registered \ {k}
    /\ UNCHANGED <<config, redis, reply, seen, now, inner, db, timers, pc, locals, cycles, failures>>

\* the unloading of a destroyed session of a memory-only store with a zero
\* memory lifespan: filter.remove of the eviction, then of the zero-lifespan step
UnregisterTwice(k) ==
    /\ k \in registered
    /\ filter' = filter_remove(filter_remove(filter, k), k)
    /\ registered' = registered \ {k}
    /\ UNCHANGED <<config, redis, reply, seen, now, inner, db, timers, pc, locals, cycles, failures>>

InitFilter ==
    /\ config \in {c \in Configs : c.mode = "Always" /\ c.use_bloom_filters
                                   /\ ~c.auto_expiry /\ c.memory_lifespan = 0}
    /\ InitState
    /\ db = [i \in SessionIDs |-> NoRow]

NextFilter == \E k \in FilterKeys : Register(k) \/ Unregister(k) \/ UnregisterTwice(k)

SpecFilter == InitFilter /\ [][NextFilter]_vars

\* ------------------------------------------------------------- claims
\* the cycle of request r is under way
InFlight(r) == pc[r] # "idle"

\* request r has attached to the record of its session id and has not yet
\* called remove_request
Attached(r) == pc[r] \in {"sweeps", "handler", "snapshot", "rotdel", "rotremove",
                          "flush", "remreq"}

\* request r has read the flags after its handler
PastSnapshot(r) == pc[r] \in {"rotdel", "rotremove", "rotinsert", "flush",
                              "remreq", "evict"}

\* another request is attached to the session id of request r
Shared(r) == \E q \in Requests : q # r /\ Attached(q) /\ sid[q] = sid[r]

\* request r is the only request in flight
LastInFlight(r) == \A q \in Requests : q # r => ~InFlight(q)

\* every request in flight on session id i presented the id (none generated it)
Presented(i) == \A r \in Requests : (InFlight(r) /\ sid[r] = i) => ~is_new[r]

\* the requests in flight beside request r all presented their id
OthersPresented(r) == \A q \in Requests : (q # r /\ InFlight(q)) => ~is_new[q]

\* C1: the memory sweep never removes from the map a record whose requests
\* count is at least 1, whatever its autoremove_at is.
C1_SweepKeepsHeldRecords ==
    [][\A r \in Requests, i \in SessionIDs :
          (pc[r] = "sweeps" /\ pc'[r] # "sweeps"
           /\ inner[i] # NoRecord /\ inner[i].requests >= 1)
          => inner'[i] # NoRecord]_vars

\* C2: two requests in flight never hold the same generated session id while
\* the id of the first is live in memory or in storage or is still to be
\* inserted (concurrent generation).
C2_GeneratedIdsUnique ==
    \A r1, r2 \in Requests :
        (r1 # r2 /\ InFlight(r1) /\ InFlight(r2) /\ is_new[r1] /\ is_new[r2]
         /\ (pc[r1] = "attach" \/ contains_key(sid[r1]) \/ db_exists(db, sid[r1])))
        => sid[r1] # sid[r2]

\* C3: while another request still holds the record, the end of a request's
\* cycle (remove_request, then the unloading) leaves the record in the map and
\* its row in storage, also when destroy is set or the memory lifespan is
\* zero: the record is unloaded only by a request that finds the count at 0.
C3_NoEvictionWhileHeld ==
    [][\A r \in Requests :
          (/\ pc[r] \in {"remreq", "evict"}
           /\ pc'[r] # pc[r]
           /\ contains_key(sid[r])
           /\ inner[sid[r]].requests >= (IF pc[r] = "remreq" THEN 2 ELSE 1))
          => /\ inner'[sid[r]] # NoRecord
             /\ db'[sid[r]] = db[sid[r]]]_vars

\* Two requests share a destroyed session under a zero memory lifespan; the
\* first to finish has called remove_request and is about to run the unloading
C3_Witness ==
    \E r \in Requests :
        /\ pc[r] = "evict"
        /\ snap[r].destroy
        /\ config.memory_lifespan = 0
        /\ Shared(r)
        /\ contains_key(sid[r])
        /\ inner[sid[r]].requests = 1

\* C4: for every record in the map, requests equals the number of request
\* cycles in flight that are attached to its id: stated for the ids that the
\* requests in flight presented, and up to the first storage error (an error
\* ends a cycle before remove_request).
C4_RequestsCountsHolders ==
    \A i \in SessionIDs :
        (/\ contains_key(i)
         /\ failures = 0
         /\ Presented(i))
        => inner[i].requests = Cardinality({r \in Requests : Attached(r) /\ sid[r] = i})

\* C5: no flush writes a record to storage while the record's destroy flag is
\* true, the flag having been set at any time before the write, also by a
\* parallel request that presented the same id.
C5_NoStoreOfDestroyed ==
    [][\A r \in Requests :
          (pc[r] = "flush" /\ flushed'[r] = "stored" /\ OthersPresented(r))
          => ~inner[sid[r]].destroy]_vars

\* C6: when the last request cycle attached to a session on which destroy was
\* set ends without error, the id is neither in the map nor in storage
\* (no storage error having occurred before).
C6_DestroyedIsGone ==
    [][\A r \in Requests :
          (/\ pc[r] = "evict" /\ pc'[r] = "idle" /\ outcome'[r] = "ok"
           /\ failures = 0
           /\ LastInFlight(r) /\ ~is_new[r]
           /\ (dcall[r] \/ (contains_key(sid[r]) /\ inner[sid[r]].destroy)))
          => /\ inner'[sid[r]] = NoRecord
             /\ ~db_exists(db', sid[r])]_vars

\* C7: destroy is sticky: a request that presented its id and whose handler
\* called destroy reads, at the end of its handler, a record that still has
\* destroy set, if it reads one.
C7_DestroySticky ==
    \A r \in Requests :
        (PastSnapshot(r) /\ dcall[r] /\ snap[r].loaded /\ Presented(sid[r]))
        => snap[r].destroy

\* C8: when a rotation from the old id to a different new id completes (the
\* other requests in flight having presented their ids), storage has no
\* row under the old id, the map has no entry under the old id, and the
\* payload that was under the old id is under the new id with renew cleared.
C8_RotationMovesSession ==
    [][\A r \in Requests :
          (/\ pc[r] = "rotinsert" /\ pc'[r] # "rotinsert"
           /\ new_id[r] # sid[r]
           /\ OthersPresented(r))
          => /\ ~db_exists(db', sid[r])
             /\ inner'[sid[r]] = NoRecord
             /\ inner'[new_id[r]] # NoRecord
             /\ inner'[new_id[r]].data = moved[r].data
             /\ ~inner'[new_id[r]].renew]_vars

\* C9: when the storage delete of the old id fails during the rotation, the
\* cycle ends with the error and the step leaves the map, the filter and
\* storage as they were.
C9_FailedRotationChangesNothing ==
    [][\A r \in Requests :
          (pc[r] = "rotdel" /\ pc'[r] = "idle")
          => /\ outcome'[r] = "rotate_error"
             /\ inner' = inner
             /\ filter' = filter
             /\ db' = db]_vars

\* A rotation has ended on the failed delete: the record is still keyed by the
\* old id and flagged renew, and the filter still contains the old id
C9_Witness ==
    \E r \in Requests :
        /\ pc[r] = "idle"
        /\ outcome[r] = "rotate_error"
        /\ contains_key(sid[r])
        /\ inner[sid[r]].id = sid[r]
        /\ inner[sid[r]].renew
        /\ config.use_bloom_filters
        /\ filter_contains(filter, sid[r])

\* C10: at every point of a rotation, a request that presented the session id
\* and shares the session finds the record under the old id or under the new
\* id.
C10_RotationAtomic ==
    \A r \in Requests :
        (pc[r] = "rotinsert" /\ new_id[r] # sid[r] /\ Shared(r) /\ OthersPresented(r))
        => (contains_key(sid[r]) \/ contains_key(new_id[r]))

\* C11: with the filter enabled, when a rotation from the old id to a different
\* new id completes, the filter contains the new id and, no other request
\* being in flight, no longer contains the old id.
C11_RotationUpdatesFilter ==
    [][\A r \in Requests :
          (/\ pc[r] = "rotinsert" /\ pc'[r] # "rotinsert"
           /\ config.use_bloom_filters
           /\ new_id[r] # sid[r]
           /\ LastInFlight(r))
          => /\ ~filter_contains(filter', sid[r])
             /\ filter_contains(filter', new_id[r])]_vars

\* C12: for every sequence of the filter operations that request cycles issue,
\* contains(id) is true for every id that was registered and not removed since.
C12_NoFalseNegative ==
    \A k \in registered : filter_contains(filter, k)

\* C13: with a zero memory lifespan, a request cycle that ends without error
\* while no other request is in flight leaves the record absent from the map,
\* and the row its flush wrote is still in storage.
C13_ZeroLifespanUnloads ==
    [][\A r \in Requests :
          (/\ pc[r] = "evict" /\ pc'[r] = "idle" /\ outcome'[r] = "ok"
           /\ config.memory_lifespan = 0
           /\ LastInFlight(r))
          => /\ inner'[sid[r]] = NoRecord
             /\ (flushed[r] = "stored" => db_exists(db', sid[r]))]_vars

\* --------------------------------------------- the storage policy modes
\* SessionData::new(id, storable, config): the record create_data builds
SessionData_new(id, can_store) ==
    [id |-> id, data |-> 0, expires_at |-> now + config.lifespan,
     autoremove_at |-> now + config.memory_lifespan,
     destroy |-> FALSE, renew |-> FALSE, longterm |-> FALSE, store |-> can_store,
     update |-> TRUE, requests |-> 1]

\* Session::create_data: insert a record for the session's id, storable
create_data(m, id) == [m EXCEPT ![id] = SessionData_new(id, TRUE)]

\* SessionStore::set_store: acts on the record when it is in memory
set_store(m, id, can_store) ==
    IF m[id] # NoRecord THEN [m EXCEPT ![id] = set_storable(@, can_store)] ELSE m

\* what a handler does with session.set_store
StoreCalls == {"none", "allow", "forbid"}

\* ready_inner.call(req) under OptIn and Manual: the handler creates the record
\* (Manual only), or not, sets a value, or not, allows or forbids storing, or
\* neither, and destroys the session, or not; it never renews the id
HandlerPolicy(r) ==
    /\ pc[r] = "handler"
    /\ \E cd \in (IF is_manual THEN BOOLEAN ELSE {FALSE}), v \in 0..MaxData,
          st \in StoreCalls, ds \in BOOLEAN :
         LET m0 == IF cd THEN create_data(inner, sid[r]) ELSE inner
             m1 == IF v # 0 THEN store_set(m0, sid[r], v) ELSE m0
             m2 == IF st # "none" THEN set_store(m1, sid[r], st = "allow") ELSE m1
             m3 == IF ds THEN store_destroy(m2, sid[r]) ELSE m2
         IN /\ inner' = m3
            /\ dcall' = [dcall EXCEPT ![r] = ds /\ m2[sid[r]] # NoRecord]
    /\ pc' = [pc EXCEPT ![r] = "snapshot"]
    /\ UNCHANGED <<config, redis, reply, seen, registered, now, db, filter, timers, sid, is_new, storable,
                   fresh, snap, new_id, moved, flushed, outcome, cycles, failures>>

\* Request cycles under the OptIn and Manual modes, within one unit of the clock
NextPolicy ==
    \E r \in Requests : Before(r) \/ HandlerPolicy(r) \/ After(r)

\* the store over a backend that expires its own rows (as the Redis client
\* does), without the filter
InitPolicy ==
    /\ config \in {c \in Configs : /\ c.mode \in {"OptIn", "Manual"}
                                   /\ c.auto_expiry /\ ~c.use_bloom_filters}
    /\ InitState

SpecPolicy == InitPolicy /\ [][NextPolicy]_vars

\* C14: under OptIn, while the record of a request's session is not storable
\* and not destroyed, the flush of that request writes nothing to storage, and
\* the end of the cycle that finds the record held by nobody removes it from
\* the map and, unless the storage delete fails, leaves no row of it.
C14_OptInNotStored ==
    [][\A r \in Requests :
          (/\ is_opt_in /\ pc[r] \in {"flush", "evict"} /\ contains_key(sid[r])
           /\ OthersPresented(r)
           /\ ~inner[sid[r]].store /\ ~inner[sid[r]].destroy)
          => /\ (pc[r] = "flush" /\ pc'[r] # "flush") => db' = db
             /\ (/\ pc[r] = "evict" /\ pc'[r] = "idle"
                 /\ ~is_session_parallel(inner, sid[r]))
                => /\ inner'[sid[r]] = NoRecord
                   /\ (outcome'[r] = "ok" => ~db_exists(db', sid[r]))]_vars

C16_ManualNoImplicitRecord ==
    [][\A r \in Requests :
          (/\ is_manual /\ pc[r] \in {"attach", "load", "insert"} /\ ~is_new[r]
           /\ LastInFlight(r)
           /\ ~contains_key(sid[r]) /\ ~db_exists(db, sid[r]))
          => /\ inner'[sid[r]] = NoRecord
             /\ ~db_exists(db', sid[r])]_vars

\* C17: when the storage write of a flush fails, the cycle of the request ends
\* there with the store error as its outcome, storage is left as it was (the
\* write is not tried again), and the record is left in the map with its update
\* flag cleared.
C17_FailedFlushSurfaced ==
    [][\A r \in Requests :
          (pc[r] = "flush" /\ pc'[r] # "flush" /\ failures' = failures + 1)
          => /\ pc'[r] = "idle"
             /\ outcome'[r] = "store_error"
             /\ db' = db
             /\ contains_key(sid[r])'
             /\ ~inner'[sid[r]].update]_vars

\* A cycle has ended on the failed write of its flush: the record is in the map
\* with its update flag cleared and storage holds no row of it
C17_Witness ==
    \E r \in Requests :
        /\ pc[r] = "idle"
        /\ outcome[r] = "store_error"
        /\ contains_key(sid[r])
        /\ ~inner[sid[r]].update
        /\ ~db_exists(db, sid[r])

\* C18: when the load or the decoding of the persisted record of a presented
\* session id fails, the cycle of the request ends there with an error; it does
\* not go on with a record built anew under that id.
C18_LoadFailureSurfaced ==
    [][\A r \in Requests :
          (/\ pc[r] = "load" /\ pc'[r] # "load" /\ failures' = failures + 1
           /\ db_exists(db, sid[r]))
          => /\ pc'[r] = "idle"
             /\ outcome'[r] \notin {"none", "ok"}
             /\ fresh'[r] = NoRecord]_vars

\* C19: when delete_expired fails during the storage sweep, the cycle of the
\* request ends there with the sweep error, storage and the storage watermark
\* are left as they were, and the storage sweep is still due.
C19_FailedSweepNotRescheduled ==
    [][\A r \in Requests :
          (pc[r] = "sweeps" /\ pc'[r] # "sweeps" /\ failures' = failures + 1)
          => /\ pc'[r] = "idle"
             /\ outcome'[r] = "sweep_error"
             /\ db' = db
             /\ timers'.last_database_expiry_sweep = timers.last_database_expiry_sweep
             /\ database_sweep_due(timers'.last_database_expiry_sweep, now')]_vars

\* A cycle has ended on the failed storage sweep and another request has
\* reached its sweeps with the storage sweep due
C19_Witness ==
    \E r, q \in Requests :
        /\ pc[r] = "idle"
        /\ outcome[r] = "sweep_error"
        /\ pc[q] = "sweeps"
        /\ database_sweep_due(timers.last_database_expiry_sweep, now)

\* ------------------------------------ storing and loading on their own
\* the records a flush hands to store_session: any payload, either longterm
\* value, an expiry ahead of the clock
StoredRecords(id) ==
    [id : {id}, data : 0..MaxData, expires_at : 1..MaxTime, autoremove_at : {0},
     destroy : {FALSE}, renew : {FALSE}, longterm : BOOLEAN, store : {FALSE},
     update : BOOLEAN, requests : {0}]

\* DatabasePool::store of a backend that keeps the text: session.to_string()
StoreAsString(id) ==
    /\ db' = db_store(db, inner[id])
    /\ UNCHANGED <<config, redis, reply, seen, registered, now, inner, filter, timers, pc, locals, cycles,
                   failures>>

\* DatabasePool::store of a backend that keeps the JSON value: session.to_value()
StoreAsJsonValue(id) ==
    /\ db' = db_store_value(db, inner[id])
    /\ UNCHANGED <<config, redis, reply, seen, registered, now, inner, filter, timers, pc, locals, cycles,
                   failures>>

\* SessionStore::load_session for request r: load the row, decode it with
\* from_storage
LoadDecode(r, id) ==
    /\ db_exists(db, id)
    /\ sid' = [sid EXCEPT ![r] = id]
    /\ fresh' = [fresh EXCEPT ![r] = load_session(id)]
    /\ UNCHANGED <<config, redis, reply, seen, registered, now, shared, pc, is_new, storable, snap, new_id,
                   moved, flushed, outcome, dcall, cycles, failures>>

NextRoundTrip ==
    \/ \E id \in SessionIDs : StoreAsString(id) \/ StoreAsJsonValue(id)
    \/ \E r \in Requests, id \in SessionIDs : LoadDecode(r, id)

\* a record of every session id in the map, nothing in storage
InitRoundTrip ==
    /\ config \in {c \in Configs : /\ c.mode = "Always" /\ c.memory_lifespan = 1
                                   /\ c.auto_expiry /\ ~c.use_bloom_filters}
    /\ now = 0
    /\ inner \in {m \in [SessionIDs -> UNION {StoredRecords(i) : i \in SessionIDs}] :
                     \A i \in SessionIDs : m[i].id = i}
    /\ db = [i \in SessionIDs |-> NoRow]
    /\ filter = EmptyFilter
    /\ registered = {}
    /\ redis = EmptyRedis
    /\ reply = NoReply
    /\ seen = [r \in Requests |-> NoSeen]
    /\ timers = [last_expiry_sweep |-> config.purge_update,
                 last_database_expiry_sweep |-> config.purge_database_update]
    /\ pc = [r \in Requests |-> "idle"]
    /\ sid = [r \in Requests |-> NoId]
    /\ is_new = [r \in Requests |-> FALSE]
    /\ storable = [r \in Requests |-> FALSE]
    /\ fresh = [r \in Requests |-> NoRecord]
    /\ snap = [r \in Requests |-> NoSnap]
    /\ new_id = [r \in Requests |-> NoId]
    /\ moved = [r \in Requests |-> NoRecord]
    /\ flushed = [r \in Requests |-> "none"]
    /\ outcome = [r \in Requests |-> "none"]
    /\ dcall = [r \in Requests |-> FALSE]
    /\ cycles = 0
    /\ failures = 0

SpecRoundTrip == InitRoundTrip /\ [][NextRoundTrip]_vars

carries_only_payload_and_longterm(stored) ==
    IF stored.kind = "String"
    THEN Len(stored.s) = 2
    ELSE DOMAIN stored.j = {"data", "longterm"}

\* request r is at the insert with a record that load_session decoded from
\* storage (a decoded record is held by nobody, a recreated one by one request)
LoadedFromStorage(r) == pc[r] = "insert" /\ fresh[r].requests = 0

\* C21: a row of storage carries only the payload and the longterm flag, and
\* the record that a request decodes from a row and inserts in the map has the
\* requested id, the payload and longterm flag of the row, destroy and renew
\* unset, update set by the recomputation, requests = 1, the storable value of
\* the request and autoremove_at = now + memory lifespan.
C21_LoadedRecordRecomputed ==
    [][/\ \A i \in SessionIDs :
             db_exists(db', i) => carries_only_payload_and_longterm(db'[i].stored)
       /\ \A r \in Requests :
             (LoadedFromStorage(r) /\ pc'[r] # "insert")
             => LET rec == inner'[sid[r]]
                IN  /\ rec.id = sid[r]
                    /\ rec.data = fresh[r].data
                    /\ rec.longterm = fresh[r].longterm
                    /\ ~rec.destroy /\ ~rec.renew /\ rec.update
                    /\ rec.requests = 1
                    /\ rec.store = storable[r]
                    /\ rec.autoremove_at = now + config.memory_lifespan]_vars

\* The first request of the run has presented the id of the persisted session
\* with storable = true and holds the record decoded from its row
C21_Witness ==
    \E r \in Requests :
        /\ cycles = 1 /\ pc[r] = "sweeps" /\ ~is_new[r] /\ storable[r]
        /\ failures = 0
        /\ contains_key(sid[r])
        /\ inner[sid[r]].data = MaxData
        /\ inner[sid[r]].store
        /\ inner[sid[r]].requests = 1

\* ------------------------------------------ the backend on its own
\* everything but the key space of the server and the reply of the last call
cycle_vars == <<config, now, inner, db, filter, timers, pc, locals, cycles, failures,
                registered, seen>>

\* the reply of a call of the backend
Reply(op, table_name, id, result) ==
    [op |-> op, table_name |-> table_name, id |-> id, result |-> result]

\* a call of the backend: the key space it leaves and the reply it gives
Call(op, table_name, id, out) ==
    /\ redis' = out.ks
    /\ reply' = Reply(op, table_name, id, out.result)
    /\ UNCHANGED cycle_vars

RedisInitiate(N) == Call("initiate", N, <<>>, redis_initiate(redis, N))

RedisStore(N, session) == Call("store", N, session.id, redis_store(redis, session, N))

RedisLoad(N, id) == Call("load", N, id, redis_load(redis, id, N))

RedisDeleteOne(N, id) ==
    Call("delete_one_by_id", N, id, redis_delete_one_by_id(redis, id, N))

RedisExists(N, id) == Call("exists", N, id, redis_exists(redis, id, N))

RedisDeleteAll(N) == Call("delete_all", N, <<>>, redis_delete_all(redis, N))

RedisGetIds(N) == Call("get_ids", N, <<>>, redis_get_ids(redis, N))

RedisCount(N) == Call("count", N, <<>>, redis_count(redis, N))

\* SessionStore::count_sessions: the backend's count of the configured table
\* when a client is attached, the number of records of the map otherwise
count_sessions(ks, m, table_name) ==
    IF is_persistent
    THEN redis_count(ks, table_name).result
    ELSE Ok(Cardinality({i \in SessionIDs : m[i] # NoRecord}))

\* Session::count
SessionCount(N) ==
    Call("session.count", N, <<>>, [ks |-> redis, result |-> count_sessions(redis, inner, N)])

NextBackend ==
    \/ \E N \in Namespaces :
          \/ RedisInitiate(N) \/ RedisDeleteAll(N) \/ RedisGetIds(N) \/ RedisCount(N)
          \/ SessionCount(N)
          \/ \E session \in BackendSessions : session.data = MaxData /\ RedisStore(N, session)
          \/ \E id \in BackendIds :
                RedisLoad(N, id) \/ RedisDeleteOne(N, id) \/ RedisExists(N, id)

\* a store with or without a client, over an empty server, with none, one or
\* two records in the map
InitBackend ==
    /\ config \in {[c EXCEPT !.persistent = p] :
                      c \in {c \in Configs : /\ c.mode = "Always" /\ c.memory_lifespan = 1
                                             /\ c.auto_expiry /\ ~c.use_bloom_filters},
                      p \in BOOLEAN}
    /\ now = 0
    /\ inner \in {[i \in SessionIDs |-> IF i <= n THEN set_id(session_ops, i) ELSE NoRecord] :
                     n \in 0..NumIds}
    /\ db = [i \in SessionIDs |-> NoRow]
    /\ filter = EmptyFilter
    /\ registered = {}
    /\ redis = EmptyRedis
    /\ reply = NoReply
    /\ seen = [r \in Requests |-> NoSeen]
    /\ timers = [last_expiry_sweep |-> config.purge_update,
                 last_database_expiry_sweep |-> config.purge_database_update]
    /\ pc = [r \in Requests |-> "idle"]
    /\ sid = [r \in Requests |-> NoId]
    /\ is_new = [r \in Requests |-> FALSE]
    /\ storable = [r \in Requests |-> FALSE]
    /\ fresh = [r \in Requests |-> NoRecord]
    /\ snap = [r \in Requests |-> NoSnap]
    /\ new_id = [r \in Requests |-> NoId]
    /\ moved = [r \in Requests |-> NoRecord]
    /\ flushed = [r \in Requests |-> "none"]
    /\ outcome = [r \in Requests |-> "none"]
    /\ dcall = [r \in Requests |-> FALSE]
    /\ cycles = 0
    /\ failures = 0

SpecBackend == InitBackend /\ [][NextBackend]_vars

\* ------------------------------------- the payload API on its own
\* the payload of a record as the mapping it is: keys to JSON texts
PayloadKeys == {"k1", "k2"}
PayloadTexts == {"1", ""}

None == [none |-> TRUE]
Some(v) == [some |-> v]

\* serde_json::from_str(text).ok(): the text "1" is the number 1, the empty
\* text is no JSON
from_str_ok(text) == IF text = "1" THEN Some(1) ELSE None

\* serde_json::to_string(&value).unwrap_or_else(|_| "")
to_string_or_empty(value) == IF value = 1 THEN "1" ELSE ""

\* get flagging the record for update, as get_remove does
get_sets_update(rec, k) ==
    [rec |-> [rec EXCEPT !.update = TRUE],
     result |-> IF k \in DOMAIN rec.data THEN from_str_ok(rec.data[k]) ELSE None]

\* SessionData::get: the decoded value of the key, the record untouched
get(rec, k) ==
    [rec |-> rec,
     result |-> IF k \in DOMAIN rec.data THEN from_str_ok(rec.data[k]) ELSE None]

\* SessionData::remove with the update flag flipped instead of set
remove_flips_update(rec, k) ==
    [rec |-> [rec EXCEPT !.data = [x \in (DOMAIN rec.data) \ {k} |-> rec.data[x]],
                         !.update = ~rec.update],
     result |-> "unit"]

\* SessionData::remove: drop the key, set update
remove(rec, k) ==
    [rec |-> [rec EXCEPT !.data = [x \in (DOMAIN rec.data) \ {k} |-> rec.data[x]],
                         !.update = TRUE],
     result |-> "unit"]

\* SessionData::set: insert the text of the value, set update
set_key(rec, k, value) ==
    [rec |-> [rec EXCEPT !.data = (k :> to_string_or_empty(value)) @@ rec.data,
                         !.update = TRUE],
     result |-> "unit"]

\* SessionData::merge_data: extend the payload with texts as they come
merge_data(rec, k, text) ==
    [rec |-> [rec EXCEPT !.data = (k :> text) @@ rec.data], result |-> "unit"]

\* the session whose payload is called on
PayloadId == 1

\* a call of the payload API on the record of the session: the record it leaves
\* and the reply it gives
PayloadCall(op, k, out) ==
    /\ inner' = [inner EXCEPT ![PayloadId] = out.rec]
    /\ reply' = Reply(op, <<>>, k, out.result)
    /\ UNCHANGED <<config, redis, seen, now, db, filter, timers, pc, locals, cycles, failures,
                   registered>>

PayloadGet(k) == PayloadCall("get", k, get(inner[PayloadId], k))

PayloadRemove(k) == PayloadCall("remove", k, remove(inner[PayloadId], k))

PayloadSet(k) == PayloadCall("set", k, set_key(inner[PayloadId], k, 1))

PayloadMerge(k, text) == PayloadCall("merge_data", k, merge_data(inner[PayloadId], k, text))

\* DatabasePool::initiate of the null backend
NullInitiate(N) == Call("null.initiate", N, <<>>, null_initiate(redis, N))

NextCalls ==
    \/ \E k \in PayloadKeys :
          \/ PayloadGet(k) \/ PayloadRemove(k) \/ PayloadSet(k)
          \/ \E text \in PayloadTexts : PayloadMerge(k, text)
    \/ \E N \in Namespaces : RedisInitiate(N) \/ NullInitiate(N)

\* the key spaces initiate is called on: each table empty or holding every id
InitiateKeySpaces ==
    {[k \in RedisKeys |->
         IF \E N \in T, id \in BackendIds : k = key(id, N)
         THEN [stored |-> StoredAsString(json_text([data |-> MaxData, longterm |-> FALSE])),
               expires |-> 1]
         ELSE NoRow] : T \in SUBSET Namespaces}

\* a record with an empty payload in the map, over a server holding some tables
InitCalls ==
    /\ config \in {c \in Configs : /\ c.mode = "Always" /\ c.memory_lifespan = 1
                                   /\ c.auto_expiry /\ ~c.use_bloom_filters}
    /\ now = 0
    /\ inner = [i \in SessionIDs |->
                   IF i = PayloadId
                   THEN [set_id(session_ops, i) EXCEPT !.data = <<>>, !.update = FALSE]
                   ELSE NoRecord]
    /\ db = [i \in SessionIDs |-> NoRow]
    /\ filter = EmptyFilter
    /\ registered = {}
    /\ redis \in InitiateKeySpaces
    /\ reply = NoReply
    /\ seen = [r \in Requests |-> NoSeen]
    /\ timers = [last_expiry_sweep |-> config.purge_update,
                 last_database_expiry_sweep |-> config.purge_database_update]
    /\ pc = [r \in Requests |-> "idle"]
    /\ sid = [r \in Requests |-> NoId]
    /\ is_new = [r \in Requests |-> FALSE]
    /\ storable = [r \in Requests |-> FALSE]
    /\ fresh = [r \in Requests |-> NoRecord]
    /\ snap = [r \in Requests |-> NoSnap]
    /\ new_id = [r \in Requests |-> NoId]
    /\ moved = [r \in Requests |-> NoRecord]
    /\ flushed = [r \in Requests |-> "none"]
    /\ outcome = [r \in Requests |-> "none"]
    /\ dcall = [r \in Requests |-> FALSE]
    /\ cycles = 0
    /\ failures = 0

SpecCalls == InitCalls /\ [][NextCalls]_vars

\* C22: initiate gives no error and leaves the server as a second initiate
\* leaves it again; remove of a payload key the record does not hold gives no
\* error and leaves the record (payload and flags) as a second remove of that
\* key leaves it again.
C22_Idempotent ==
    [][/\ reply'.op \in {"initiate", "null.initiate"}
          => /\ reply'.result = Ok("unit")
             /\ redis' = redis
             /\ redis_initiate(redis', reply'.table_name).ks = redis'
             /\ null_initiate(redis', reply'.table_name).ks = redis'
       /\ (reply'.op = "remove" /\ reply'.id \notin DOMAIN inner[PayloadId].data)
          => /\ reply'.result = "unit"
             /\ inner'[PayloadId].data = inner[PayloadId].data
             /\ remove(inner'[PayloadId], reply'.id).rec = inner'[PayloadId]]_vars

\* remove has been called on a key the record does not hold, another key is
\* held, and the record is flagged for update
C22_Witness ==
    /\ reply.op = "remove"
    /\ reply.id = "k1"
    /\ DOMAIN inner[PayloadId].data = {"k2"}
    /\ inner[PayloadId].update

\* the keys of the records of table N
keys_of(N) == {key(id, N) : id \in BackendIds}

\* C23: store, load, delete_one_by_id, exists and delete_all called with a
\* table name N that is not empty leave every key that is not a key of a record
\* of N as it was; store, load, delete_one_by_id and exists touch at most the one
\* key of the id they are handed, which under the empty table name is the raw
\* id, and load and exists answer from that key.
C23_NamespaceIsolation ==
    [][LET N == reply'.table_name
           id == reply'.id
       IN  /\ (/\ reply'.op \in {"store", "load", "delete_one_by_id", "exists", "delete_all"}
               /\ N # <<>>)
              => \A k \in RedisKeys \ keys_of(N) : redis'[k] = redis[k]
           /\ reply'.op \in {"store", "load", "delete_one_by_id", "exists"}
              => /\ \A k \in RedisKeys \ {key(id, N)} : redis'[k] = redis[k]
                 /\ N = <<>> => key(id, N) = id
           /\ reply'.op = "exists"
              => reply'.result = Ok(redis[key(id, N)] # NoRow)
           /\ (reply'.op = "load" /\ redis[key(id, N)] # NoRow)
              => reply'.result = Ok(redis[key(id, N)].stored)]_vars

\* the ids of the records stored under table N
stored_ids(ks, N) == {id \in BackendIds : ks[key(id, N)] # NoRow}

\* C24: get_ids(N) returns exactly the ids of the records stored under N.
C24_GetIdsExact ==
    [][reply'.op = "get_ids"
       => reply'.result = Ok(stored_ids(redis, reply'.table_name))]_vars

\* the number of records stored under table N, of all records under the empty
\* table name
stored_count(ks, N) ==
    IF N = <<>>
    THEN Cardinality({k \in RedisKeys : ks[k] # NoRow})
    ELSE Cardinality(stored_ids(ks, N))

\* C25: count(N) returns the number of records stored under N, all records
\* when N is empty; the count of a session returns that number when a client
\* is attached and the number of records of the map otherwise.
C25_CountExact ==
    [][/\ reply'.op = "count"
          => reply'.result = Ok(stored_count(redis, reply'.table_name))
       /\ reply'.op = "session.count"
          => reply'.result =
                IF is_persistent
                THEN Ok(stored_count(redis, reply'.table_name))
                ELSE Ok(Cardinality({i \in SessionIDs : contains_key(i)}))]_vars

\* C26: get leaves the record as it was, payload and flags, and returns None
\* when the key is absent and when the text held under the key is no JSON.
C26_GetReadsOnly ==
    [][reply'.op = "get"
       => /\ inner' = inner
          /\ reply'.id \notin DOMAIN inner[PayloadId].data => reply'.result = None
          /\ (/\ reply'.id \in DOMAIN inner[PayloadId].data
              /\ inner[PayloadId].data[reply'.id] = "")
             => reply'.result = None
          /\ (/\ reply'.id \in DOMAIN inner[PayloadId].data
              /\ inner[PayloadId].data[reply'.id] = "1")
             => reply'.result = Some(1)]_vars

\* get has returned None for a key that holds a text that is no JSON, on a
\* record not flagged for update
C26_Witness ==
    /\ reply.op = "get"
    /\ reply.result = None
    /\ reply.id \in DOMAIN inner[PayloadId].data
    /\ inner[PayloadId].data[reply.id] = ""
    /\ ~inner[PayloadId].update

\* request r takes the step of Session::new that generates its id
Generates(r) == pc[r] = "idle" /\ pc'[r] = "attach" /\ is_new'[r]

\* C27: with the filter disabled, the id that Session::new generates is not a
\* key of the map and has no row in storage.
C27_NoFilterNoCollision ==
    [][\A r \in Requests :
          (Generates(r) /\ ~config.use_bloom_filters)
          => /\ ~contains_key(sid'[r])
             /\ ~db_exists(db, sid'[r])]_vars

\* C28: with the filter enabled, the id that Session::new generates is not a
\* key of the map and has no row in storage, whatever the filter holds.
C28_FilterNotSoleAuthority ==
    [][\A r \in Requests :
          (Generates(r) /\ config.use_bloom_filters /\ OthersPresented(r))
          => /\ ~contains_key(sid'[r])
             /\ ~db_exists(db, sid'[r])]_vars

\* the step of request r in which client.exists of generate_uuid fails
ExistsFails(r) == pc[r] = "idle" /\ outcome'[r] # outcome[r] /\ failures' = failures + 1

\* C29: when the exists check of the id generation fails, the cycle of the
\* request returns an error response (the 500 of trace_error) and does not panic.
C29_ExistsErrorReturned ==
    [][\A r \in Requests :
          (ExistsFails(r) /\ OthersPresented(r)) => outcome'[r] # "panic"]_vars

\* ------------------------------------------- the flush and the lifespans
\* SessionStore::set_longterm acts on the record when it is in memory
store_set_longterm(m, id, longterm) ==
    IF m[id] # NoRecord THEN [m EXCEPT ![id] = set_longterm(@, longterm)] ELSE m

\* ready_inner.call(req): the handler sets a value, or not, and marks the
\* session longterm, or not
HandlerLongterm(r) ==
    /\ pc[r] = "handler"
    /\ \E v \in 0..MaxData, lt \in BOOLEAN :
         LET m1 == IF v # 0 THEN store_set(inner, sid[r], v) ELSE inner
             m2 == IF lt THEN store_set_longterm(m1, sid[r], TRUE) ELSE m1
         IN inner' = m2
    /\ pc' = [pc EXCEPT ![r] = "snapshot"]
    /\ UNCHANGED <<config, redis, reply, seen, registered, now, db, filter, timers, sid, is_new, storable, fresh,
                   snap, new_id, moved, flushed, outcome, dcall, cycles, failures>>

\* Request cycles whose handlers may mark the session longterm, with the clock
\* running
NextFlush ==
    \/ \E r \in Requests : Before(r) \/ HandlerLongterm(r) \/ After(r)
    \/ Tick

\* The store in Always mode over a backend without native expiry, with
\* always_save on or off
InitFlush ==
    /\ config \in {[c EXCEPT !.always_save = b] :
                     c \in {k \in Configs : /\ k.mode = "Always"
                                            /\ ~k.use_bloom_filters
                                            /\ ~k.auto_expiry},
                     b \in BOOLEAN}
    /\ InitState

SpecFlush == InitFlush /\ [][NextFlush]_vars

\* the lifespan the flush gives the record
span(rec) == IF rec.longterm THEN config.max_lifespan ELSE config.lifespan

\* the flush step of request r
Flushes(r) == pc[r] = "flush" /\ pc'[r] # "flush"

\* C30: a flush that writes gives the record and its row the expiry
\* now + max_lifespan when the record is longterm and now + lifespan otherwise;
\* the record has update false once the write was issued, whether it succeeded
\* or failed; a record in the map with update false that is expired is, with
\* always_save off, not written and left as it is.
C30_FlushExpiryAndUpdate ==
    [][\A r \in Requests :
          Flushes(r) =>
            /\ (flushed'[r] = "stored" \/ outcome'[r] = "store_error")
               => /\ inner'[sid[r]].expires_at = now + span(inner[sid[r]])
                  /\ ~inner'[sid[r]].update
            /\ flushed'[r] = "stored"
               => /\ db_exists(db', sid[r])
                  /\ db'[sid[r]].expires = now + span(inner[sid[r]])
            /\ (/\ contains_key(sid[r])
                /\ ~config.always_save
                /\ ~inner[sid[r]].update
                /\ is_expired(inner[sid[r]]))
               => /\ flushed'[r] = "skipped"
                  /\ db' = db
                  /\ inner' = inner]_vars

\* a longterm record was flushed with the long lifespan
C30_Witness ==
    \E r \in Requests :
        /\ pc[r] = "remreq" /\ flushed[r] = "stored"
        /\ contains_key(sid[r])
        /\ inner[sid[r]].longterm
        /\ inner[sid[r]].expires_at = now + config.max_lifespan
        /\ ~inner[sid[r]].update
        /\ db_exists(db, sid[r])
        /\ db[sid[r]].expires = now + config.max_lifespan

\* ------------------------------------- the sweeps, lock by lock
\* call: read both watermarks under the read lock of the timers, let it go, and
\* read the clock
ReadTimers(r) ==
    /\ pc[r] = "sweeps"
    /\ seen' = [seen EXCEPT ![r] = [last_expiry_sweep |-> timers.last_expiry_sweep,
                                   last_database_expiry_sweep |->
                                       timers.last_database_expiry_sweep,
                                   current_time |-> now]]
    /\ Goto(r, "memsweep")
    /\ UNCHANGED <<config, redis, reply, registered, now, shared, sid, cycles, failures>>

\* call: the memory sweep, when the watermark that was read says it is due:
\* take the ids to unload out of the filter, prune the map, write the watermark
MemorySweep(r) ==
    /\ pc[r] = "memsweep"
    /\ IF memory_sweep_due(seen[r].last_expiry_sweep, seen[r].current_time)
       THEN /\ filter' = sweep_filter(filter, seen[r].current_time)
            /\ inner' = sweep_memory(inner, seen[r].current_time)
            /\ timers' = [timers EXCEPT !.last_expiry_sweep = now + config.purge_update]
       ELSE UNCHANGED <<filter, inner, timers>>
    /\ Goto(r, "dbsweep")
    /\ UNCHANGED <<config, redis, reply, seen, registered, now, db, sid, cycles, failures>>

\* call: the database sweep, when the watermark that was read says it is due:
\* delete the expired rows, take their ids out of the filter, write the
\* watermark; an error of delete_expired ends the cycle
DatabaseSweep(r) ==
    /\ pc[r] = "dbsweep"
    /\ IF database_sweep_due(seen[r].last_database_expiry_sweep, seen[r].current_time)
       THEN \/ /\ db' = [i \in SessionIDs |-> IF i \in expired_rows THEN NoRow ELSE db[i]]
               /\ filter' = IF ~auto_handles_expiry
                            THEN filter_remove_each(filter, expired_rows) ELSE filter
               /\ timers' = [timers EXCEPT !.last_database_expiry_sweep =
                                               now + config.purge_database_update]
               /\ Goto(r, "handler")
               /\ UNCHANGED failures
            \/ /\ failures < MaxFailures
               /\ failures' = failures + 1
               /\ EndCycle(r, "sweep_error")
               /\ UNCHANGED <<db, filter, timers>>
       ELSE /\ Goto(r, "handler")
            /\ UNCHANGED <<db, filter, timers, failures>>
    /\ UNCHANGED <<config, redis, reply, seen, registered, now, inner, sid, cycles>>

\* ready_inner.call(req): the handler sets a value, or not
HandlerSets(r) ==
    /\ pc[r] = "handler"
    /\ \E v \in 0..MaxData :
         inner' = IF v # 0 THEN store_set(inner, sid[r], v) ELSE inner
    /\ pc' = [pc EXCEPT ![r] = "snapshot"]
    /\ UNCHANGED <<config, redis, reply, seen, registered, now, db, filter, timers, sid, is_new,
                   storable, fresh, snap, new_id, moved, flushed, outcome, dcall, cycles,
                   failures>>

\* Request cycles with the clock running, in which the watermarks are read in
\* one step and each sweep runs in a later one
NextSweep ==
    \/ \E r \in Requests :
          \/ NewSession(r) \/ Attach(r) \/ LoadSession(r) \/ InsertFresh(r)
          \/ ReadTimers(r) \/ MemorySweep(r) \/ DatabaseSweep(r)
          \/ HandlerSets(r) \/ After(r)
    \/ Tick

\* The store in Always mode with the filter enabled and a memory lifespan
\* above zero, over a backend without native expiry
InitSweep ==
    /\ config \in {c \in Configs : /\ c.mode = "Always"
                                   /\ c.memory_lifespan = 1
                                   /\ c.use_bloom_filters
                                   /\ ~c.auto_expiry}
    /\ InitState

SpecSweep == InitSweep /\ [][NextSweep]_vars

\* request r runs the memory sweep in this step
RunsMemorySweep(r) ==
    /\ pc[r] = "memsweep" /\ pc'[r] # "memsweep"
    /\ memory_sweep_due(seen[r].last_expiry_sweep, seen[r].current_time)

\* C31: the memory sweep runs only when the watermark of the store is at or
\* before now and the memory lifespan is not zero, and it leaves the watermark
\* at now + the purge interval; with a zero memory lifespan the watermark
\* never changes.
C31_MemorySweepThrottled ==
    [][/\ \A r \in Requests :
             RunsMemorySweep(r)
             => /\ timers.last_expiry_sweep <= now
                /\ config.memory_lifespan # 0
                /\ timers'.last_expiry_sweep = now + config.purge_update
       /\ config.memory_lifespan = 0
          => timers'.last_expiry_sweep = timers.last_expiry_sweep]_vars

\* the records the memory sweep of request r is about to unload
Unloads(r) ==
    {i \in SessionIDs : inner[i] # NoRecord /\ will_autoremove(inner[i], seen[r].current_time)}

\* C32: a memory sweep takes the id of every record it unloads out of the
\* filter when the filter is enabled and the backend does not expire rows
\* natively, and leaves the filter as it is otherwise.
C32_MemorySweepFilter ==
    [][\A r \in Requests :
          RunsMemorySweep(r)
          => IF config.use_bloom_filters /\ ~auto_handles_expiry
             THEN \A i \in Unloads(r) : ~filter_contains(filter', i)
             ELSE filter' = filter]_vars

\* request r runs the database sweep in this step
RunsDatabaseSweep(r) ==
    /\ pc[r] = "dbsweep" /\ pc'[r] # "dbsweep"
    /\ database_sweep_due(seen[r].last_database_expiry_sweep, seen[r].current_time)

\* C33: the database sweep runs only when the database watermark of the store
\* is at or before now and a backend is attached; when delete_expired succeeds
\* every id it returned is out of the filter and the database watermark is
\* now + the database purge interval; the memory watermark is left as it is.
C33_DatabaseSweepThrottled ==
    [][\A r \in Requests :
          RunsDatabaseSweep(r)
          => /\ timers.last_database_expiry_sweep <= now
             /\ is_persistent
             /\ timers'.last_expiry_sweep = timers.last_expiry_sweep
             /\ failures' = failures
                => /\ \A i \in expired_rows : ~filter_contains(filter', i)
                   /\ timers'.last_database_expiry_sweep =
                          now + config.purge_database_update]_vars

\* ------------------------------------ the update flag of a record
\* get_remove that leaves the update flag as it was
get_remove_keeps_update(rec, k) ==
    IF k \in DOMAIN rec.data
    THEN [rec |-> [rec EXCEPT !.data = [x \in (DOMAIN rec.data) \ {k} |-> rec.data[x]]],
          result |-> from_str_ok(rec.data[k])]
    ELSE [rec |-> rec, result |-> None]

\* SessionData::get_remove: take the key out and set update when it was there
get_remove(rec, k) ==
    IF k \in DOMAIN rec.data
    THEN [rec |-> [rec EXCEPT !.data = [x \in (DOMAIN rec.data) \ {k} |-> rec.data[x]],
                              !.update = TRUE],
          result |-> from_str_ok(rec.data[k])]
    ELSE [rec |-> rec, result |-> None]

\* SessionData::clear: empty the payload, set update
clear(rec) == [rec |-> [rec EXCEPT !.data = <<>>, !.update = TRUE], result |-> "unit"]

\* a call on the record that returns nothing
Unit(rec) == [rec |-> rec, result |-> "unit"]

RecordGetRemove(k) == PayloadCall("get_remove", k, get_remove(inner[PayloadId], k))

RecordClear == PayloadCall("clear", "", clear(inner[PayloadId]))

RecordRenew == PayloadCall("renew", "", Unit(renew(inner[PayloadId])))

RecordSetLongterm ==
    \E b \in BOOLEAN :
        PayloadCall("set_longterm", "", Unit(set_longterm(inner[PayloadId], b)))

RecordSetStorable ==
    \E b \in BOOLEAN :
        PayloadCall("set_storable", "", Unit(set_storable(inner[PayloadId], b)))

RecordSetId == PayloadCall("set_id", "", Unit(set_id(inner[PayloadId], PayloadId)))

\* the flush of the end of a cycle on the record: write it when it needs
\* writing, with the expiry set and update cleared
RecordFlush ==
    /\ LET rec == inner[PayloadId]
       IN IF needs_write(rec)
          THEN /\ inner' = [inner EXCEPT ![PayloadId] = flush_record(rec)]
               /\ db' = db_store(db, flush_record(rec))
               /\ reply' = Reply("flush", <<>>, "", "stored")
          ELSE /\ reply' = Reply("flush", <<>>, "", "skipped")
               /\ UNCHANGED <<inner, db>>
    /\ UNCHANGED <<config, redis, seen, now, filter, timers, pc, locals, cycles, failures,
                   registered>>

\* The calls that change a record, the flush, and the clock
NextRecord ==
    \/ \E k \in PayloadKeys : PayloadSet(k) \/ PayloadRemove(k) \/ RecordGetRemove(k)
    \/ RecordClear \/ RecordRenew \/ RecordSetLongterm \/ RecordSetStorable \/ RecordSetId
    \/ RecordFlush
    \/ Tick

\* One record in the map, as the last flush left it, over an empty backend
InitRecord ==
    /\ config \in {c \in Configs : /\ c.mode = "Always" /\ c.memory_lifespan = 1
                                   /\ ~c.auto_expiry /\ ~c.use_bloom_filters}
    /\ now = 0
    /\ inner = [i \in SessionIDs |->
                   IF i = PayloadId
                   THEN [set_id(session_ops, i) EXCEPT !.data = <<>>, !.update = FALSE]
                   ELSE NoRecord]
    /\ db = [i \in SessionIDs |-> NoRow]
    /\ filter = EmptyFilter
    /\ registered = {}
    /\ redis = EmptyRedis
    /\ reply = NoReply
    /\ seen = [r \in Requests |-> NoSeen]
    /\ timers = [last_expiry_sweep |-> config.purge_update,
                 last_database_expiry_sweep |-> config.purge_database_update]
    /\ pc = [r \in Requests |-> "idle"]
    /\ sid = [r \in Requests |-> NoId]
    /\ is_new = [r \in Requests |-> FALSE]
    /\ storable = [r \in Requests |-> FALSE]
    /\ fresh = [r \in Requests |-> NoRecord]
    /\ snap = [r \in Requests |-> NoSnap]
    /\ new_id = [r \in Requests |-> NoId]
    /\ moved = [r \in Requests |-> NoRecord]
    /\ flushed = [r \in Requests |-> "none"]
    /\ outcome = [r \in Requests |-> "none"]
    /\ dcall = [r \in Requests |-> FALSE]
    /\ cycles = 0
    /\ failures = 0

SpecRecord == InitRecord /\ [][NextRecord]_vars

\* C34: set, remove, get_remove of a present key, clear, renew, set_longterm,
\* set_storable and set_id each leave the record with update true, and a
\* record with update true is written by the flush that comes next.
C34_MutationsSetUpdate ==
    [][/\ \A k \in PayloadKeys :
             \/ PayloadSet(k)
             \/ PayloadRemove(k)
             \/ (RecordGetRemove(k) /\ k \in DOMAIN inner[PayloadId].data)
             => inner'[PayloadId].update
       /\ (RecordClear \/ RecordRenew \/ RecordSetLongterm \/ RecordSetStorable \/ RecordSetId)
          => inner'[PayloadId].update
       /\ (RecordFlush /\ inner[PayloadId].update)
          => /\ reply'.result = "stored"
             /\ db'[PayloadId] = [stored |-> StoredAsString(json_text(to_value(inner[PayloadId]))),
                                  expires |-> now + span(inner[PayloadId])]]_vars

\* a record that had expired was changed and the flush wrote the change
C34_Witness ==
    /\ reply.op = "flush" /\ reply.result = "stored"
    /\ now = MaxTime
    /\ db_exists(db, PayloadId)
    /\ db[PayloadId].expires = now + config.lifespan
    /\ db[PayloadId].stored = StoredAsString(json_text(to_value(inner[PayloadId])))
    /\ "k1" \in DOMAIN inner[PayloadId].data
    /\ ~inner[PayloadId].update

\* request r attaches to its session in this step: it inserts a new record,
\* touches the record of the map, or inserts the record it loaded
Attaches(r) == pc[r] \in {"attach", "insert"} /\ pc'[r] = "sweeps"

\* C35: the step in which a request attaches to its session leaves the record
\* with autoremove_at at or after now + the memory lifespan, and the sweeps of
\* that request leave the record in the map.
C35_AttachedRecordKept ==
    [][\A r \in Requests :
          /\ Attaches(r) => inner'[sid[r]].autoremove_at >= now + config.memory_lifespan
          /\ (pc[r] = "sweeps" /\ pc'[r] # "sweeps" /\ contains_key(sid[r]))
             => inner'[sid[r]] # NoRecord]_vars

\* ------------------------------- the guard of the map during the flush
\* no request holds the guard that inner.get_mut gave it for the record of id
Unblocked(id) == \A q \in Requests : pc[q] = "storing" => sid[q] # id

\* no request holds a guard of the map: retain can visit every record
MapUnblocked == \A q \in Requests : pc[q] # "storing"

\* call: inner.get_mut(&session.id); a record that needs writing gets its
\* expiry and update cleared, and the guard is kept for store_session
FlushLock(r) ==
    /\ pc[r] = "flush"
    /\ Unblocked(sid[r])
    /\ IF flush_allowed(snap[r]) /\ contains_key(sid[r]) /\ needs_write(inner[sid[r]])
       THEN /\ inner' = [inner EXCEPT ![sid[r]] = flush_record(@)]
            /\ pc' = [pc EXCEPT ![r] = "storing"]
            /\ UNCHANGED flushed
       ELSE /\ flushed' = [flushed EXCEPT ![r] = "skipped"]
            /\ pc' = [pc EXCEPT ![r] = "remreq"]
            /\ UNCHANGED inner
    /\ UNCHANGED <<config, redis, reply, seen, registered, now, db, filter, timers, sid, is_new,
                   storable, fresh, snap, new_id, moved, outcome, dcall, cycles, failures>>

\* call: store_session(&sess).await returns and the guard is dropped; an error
\* ends the cycle
FlushStore(r) ==
    /\ pc[r] = "storing"
    /\ \/ /\ db' = db_store(db, inner[sid[r]])
          /\ flushed' = [flushed EXCEPT ![r] = "stored"]
          /\ pc' = [pc EXCEPT ![r] = "remreq"]
          /\ UNCHANGED <<outcome, is_new, storable, fresh, snap, new_id, moved, dcall,
                         failures>>
       \/ /\ failures < MaxFailures
          /\ failures' = failures + 1
          /\ EndCycle(r, "store_error")
          /\ UNCHANGED db
    /\ UNCHANGED <<config, redis, reply, seen, registered, now, inner, filter, timers, sid,
                   cycles>>

\* a handler that reads or writes its session: it waits for the guard
HandlerGuarded(r) == Unblocked(sid[r]) /\ HandlerNoRenew(r)

\* the sweeps: retain waits for every guard of the map
SweepsGuarded(r) ==
    /\ memory_sweep_due(timers.last_expiry_sweep, now) => MapUnblocked
    /\ Sweeps(r)

\* Request cycles in which the flush takes the guard of its record in one step
\* and the storage call returns in a later one
NextLock ==
    \E r \in Requests :
        \/ NewSession(r) \/ LoadSession(r)
        \/ (Unblocked(sid[r]) /\ (Attach(r) \/ InsertFresh(r) \/ Snapshot(r)))
        \/ SweepsGuarded(r)
        \/ HandlerGuarded(r)
        \/ FlushLock(r) \/ FlushStore(r)
        \/ (Unblocked(sid[r]) /\ (RemoveRequest(r) \/ Evict(r)))

\* The store in Always mode without the filter, over a backend without native
\* expiry
InitLock ==
    /\ config \in {c \in Configs : /\ c.mode = "Always"
                                   /\ ~c.use_bloom_filters
                                   /\ ~c.auto_expiry}
    /\ InitState

SpecLock == InitLock /\ [][NextLock]_vars

\* C36: while the store call of the flush of one request is in flight, a
\* parallel request of the same session whose handler reads or writes the
\* session can take its step.
C36_NoGuardAcrossStore ==
    \A r, q \in Requests :
        (/\ r # q /\ pc[r] = "storing"
         /\ pc[q] = "handler" /\ sid[q] = sid[r] /\ ~is_new[q])
        => ENABLED HandlerGuarded(q)

\* ------------------------------ Session::new on the filter, lock by lock
\* Session::new: the id is resolved, and contains is asked under the read lock
ResolveContains(r) ==
    /\ pc[r] = "idle"
    /\ \E id \in SessionIDs :
         /\ sid' = [sid EXCEPT ![r] = id]
         /\ pc' = [pc EXCEPT ![r] = IF filter_contains(filter, id) THEN "resolved" ELSE "add"]
    /\ UNCHANGED <<config, redis, reply, seen, registered, now, shared, is_new, storable, fresh,
                   snap, new_id, moved, flushed, outcome, dcall, cycles, failures>>

\* Session::new: contains was false, the id is added under the write lock
ResolveAdd(r) ==
    /\ pc[r] = "add"
    /\ \A s \in slots_of(sid[r]) : filter[s] < MaxCount
    /\ filter' = filter_add(filter, sid[r])
    /\ registered' = registered \cup {sid[r]}
    /\ pc' = [pc EXCEPT ![r] = "resolved"]
    /\ UNCHANGED <<config, redis, reply, seen, now, inner, db, timers, sid, is_new, storable,
                   fresh, snap, new_id, moved, flushed, outcome, dcall, cycles, failures>>

\* the request that resolved the id ends
ResolveDone(r) ==
    /\ pc[r] = "resolved"
    /\ pc' = [pc EXCEPT ![r] = "idle"]
    /\ UNCHANGED <<config, redis, reply, seen, registered, now, shared, sid, is_new, storable,
                   fresh, snap, new_id, moved, flushed, outcome, dcall, cycles, failures>>

\* one filter.remove of an id that no request is resolving
RemoveOnce(k) ==
    /\ k \in registered
    /\ \A r \in Requests : pc[r] = "idle" \/ sid[r] # k
    /\ filter' = filter_remove(filter, k)
    /\ registered' = registered \ {k}
    /\ UNCHANGED <<config, redis, reply, seen, now, inner, db, timers, pc, locals, cycles,
                   failures>>

NextRegister ==
    \/ \E r \in Requests : ResolveContains(r) \/ ResolveAdd(r) \/ ResolveDone(r)
    \/ \E k \in SessionIDs : RemoveOnce(k)

SpecRegister == InitFilter /\ [][NextRegister]_vars

\* C37: when Session::new has resolved an id the filter contains it, and one
\* remove of an id that requests resolved, however many and however
\* interleaved, leaves the filter without it.
C37_RegisteredOnce ==
    [][/\ \A r \in Requests :
             (pc[r] # "resolved" /\ pc'[r] = "resolved") => filter_contains(filter', sid'[r])
       /\ \A k \in SessionIDs :
             (k \in registered /\ k \notin registered') => ~filter_contains(filter', k)]_vars

\* C38: when the cycle of the only request in flight ends, on whatever path,
\* the record of its session is out of the map or has a requests count of 0.
C38_RequestsReleased ==
    [][\A r \in Requests :
          (/\ pc[r] # "idle" /\ pc'[r] = "idle"
           /\ LastInFlight(r)
           /\ ~is_new[r])
          => \/ inner'[sid[r]] = NoRecord
             \/ inner'[sid[r]].requests = 0]_vars

\* C39: when a request inserts the record it created or loaded for an id
\* whose record another request in flight holds, the payload and the destroy
\* and renew flags that record has are still there afterwards.
C39_AttachKeepsHeldRecord ==
    [][\A r \in Requests :
          (/\ pc[r] \in {"attach", "insert"} /\ pc'[r] = "sweeps"
           /\ contains_key(sid[r])
           /\ Shared(r)
           /\ Presented(sid[r])
           /\ failures = 0)
          => /\ inner'[sid[r]].data = inner[sid[r]].data
             /\ inner'[sid[r]].destroy = inner[sid[r]].destroy
             /\ inner'[sid[r]].renew = inner[sid[r]].renew]_vars

\* C40: a request that runs the memory sweep, or the database sweep, runs it
\* for the watermark the store still has: no other request has run that sweep
\* since this request read the watermark.
C40_OneSweepPerWatermark ==
    [][\A r \in Requests :
          /\ RunsMemorySweep(r)
             => seen[r].last_expiry_sweep = timers.last_expiry_sweep
          /\ RunsDatabaseSweep(r)
             => seen[r].last_database_expiry_sweep = timers.last_database_expiry_sweep]_vars

====
